---- MODULE Spec2Model ----
(***************************************************************************)
(* Gesture-driven particle text: the gesture polling loop of App.tsx, the  *)
(* text rasterizer generateTextParticles and the per-frame callback of     *)
(* ParticleSystem.                                                         *)
(*                                                                         *)
(* Numbers are fixed point.  Landmark coordinates are in 1/200 of the      *)
(* normalized image, distances in 1/1000, dispersion in 1/1250 (so that    *)
(* (avgSpread - 0.15) * 4 is exact: with T the sum of the five distances   *)
(* in 1/1000, avgSpread = T/5000 and (avgSpread - 0.15) * 4 = (T-750)/1250)*)
(* World coordinates are in 1/1000 of a world unit.                        *)
(***************************************************************************)
EXTENDS Integers, Sequences, FiniteSets, TLC

VARIABLES
  loading,            \* App: useState(true)
  cameraActive,       \* App: useState(false)
  handLandmarkerRef,  \* App: TRUE once HandLandmarker.createFromOptions resolved
  mounted,            \* App is mounted: videoRef/canvasRef are set
  listener,           \* 'loadeddata' listener: "none", "armed", "fired"
  targetMode,         \* App: useState<number>(1)
  dispersionFactor,   \* App: useState<number>(0), in 1/1250
  activeHandCount,    \* App: useState(0)
  lastVideoTimeRef,   \* App: useRef(-1)
  requestRef,         \* App: useRef<number>(0); the handle of the last request
  rafPending,         \* requestAnimationFrame(predictWebcam) callbacks queued
  mediaPending,       \* startCamera calls waiting for getUserMedia to settle
  videoTime,          \* video.currentTime, counted in frames
  results             \* results.landmarks of the last detectForVideo call

appVars == <<loading, cameraActive, handLandmarkerRef, mounted, listener,
             targetMode, dispersionFactor, activeHandCount, lastVideoTimeRef,
             requestRef, rafPending, mediaPending, videoTime, results>>

VARIABLES
  targets,        \* targets.current: mode -> points, a key per computed mode
  timerPending,   \* the setTimeout of the pre-generation effect has not fired yet
  canvases,       \* the canvas each generateTextParticles call of the effect met
  particles,      \* particles[i]: [position, velocity, targetIndex]
  positions,      \* Float32Array(PARTICLE_COUNT * 3)
  colors,         \* Float32Array(PARTICLE_COUNT * 3)
  ticks,          \* useFrame callbacks run so far
  tick            \* locals of the last useFrame callback run

simVars == <<targets, timerPending, canvases, particles, positions, colors, ticks, tick>>

VARIABLES
  rasterArgs,     \* a call of generateTextParticles: [canvas, size, particleCount]
  rasterRet       \* its return: [done, points]

rasterVars == <<rasterArgs, rasterRet>>

----------------------------------------------------------------------------
(* Bounds *)

MaxFrames == 1     \* video frames delivered after the first one
MaxPolls == 2      \* iterations of the polling loop that pass the guard
RasterWidth == 3   \* width of the canvases the rasterizer is run on
MaxPoints == 5     \* largest particleCount the rasterizer is run with
PARTICLE_COUNT == 2  \* particles of the simulation (4000 in the program)
MaxTicks == 1      \* useFrame callbacks run
FrameTime == 2     \* elapsed time between two useFrame callbacks, in 1/100 s
MaxClicks == 2     \* startCamera calls waiting for getUserMedia at the same time
WarmTicks == 20    \* useFrame callbacks run before the held control state was set
MaxRun == 40       \* useFrame callbacks of a run under a held control state

----------------------------------------------------------------------------
(* Arithmetic helpers *)

Abs(a) == IF a < 0 THEN -a ELSE a
Min(a, b) == IF a < b THEN a ELSE b
Max(a, b) == IF a > b THEN a ELSE b

\* Newton's iteration on integers, from a start x >= sqrt(n)
RECURSIVE SqrtFrom(_, _)
SqrtFrom(n, x) ==
  LET y == (x + n \div x) \div 2
  IN  IF y >= x THEN x ELSE SqrtFrom(n, y)

\* Math.sqrt of a non-negative fixed-point number, rounded down
Sqrt(n) ==
  IF n = 0 THEN 0
  ELSE SqrtFrom(n, IF n < 16 THEN 4
                   ELSE IF n < 256 THEN 16
                   ELSE IF n < 4096 THEN 64
                   ELSE IF n < 65536 THEN 256
                   ELSE IF n < 1048576 THEN 1024
                   ELSE IF n < 16777216 THEN 4096
                   ELSE IF n < 268435456 THEN 16384
                   ELSE 46341)

----------------------------------------------------------------------------
(* Hand poses: 21 landmarks, x and y in 1/200 *)

DistPerCoord == 5          \* 1/200 expressed in 1/1000
DispScale == 1250          \* dispersion 1.0

Landmarks == 0 .. 20
TipIdx == <<4, 8, 12, 16, 20>>
PipIdx == <<2, 6, 10, 14, 18>>

\* A pose from its wrist, its five fingertips and, per finger, where the
\* proximal joint sits relative to the tip (pip.y - tip.y).
MkPose(wrist, tips, rel) ==
  [l \in Landmarks |->
     IF \E f \in 1 .. 5 : TipIdx[f] = l
       THEN LET f == CHOOSE f \in 1 .. 5 : TipIdx[f] = l IN tips[f]
     ELSE IF \E f \in 1 .. 5 : PipIdx[f] = l
       THEN LET f == CHOOSE f \in 1 .. 5 : PipIdx[f] = l
            IN  [x |-> tips[f].x, y |-> tips[f].y + rel[f]]
     ELSE wrist]

Pt(a, b) == [x |-> a, y |-> b]
Wrist0 == Pt(100, 160)
All5(p) == <<p, p, p, p, p>>

\* fingertip layouts: fist, spread exactly 0.175, open palm, thumb stretched
\* with the other four curled, a half-open hand with irrational distances
TipShapes ==
  { All5(Pt(100, 140)),
    All5(Pt(100, 125)),
    All5(Pt(100, 60)),
    <<Pt(0, 160), Pt(100, 140), Pt(100, 140), Pt(100, 140), Pt(100, 140)>>,
    <<Pt(60, 130), Pt(83, 111), Pt(100, 100), Pt(117, 111), Pt(130, 140)>> }

\* pip.y - tip.y for thumb, index, middle, ring, pinky: positive = finger up
PipOffsets ==
  { <<10, -10, -10, -10, -10>>,
    <<-10, 0, -10, -10, -10>>,
    <<-10, 10, -10, -10, -10>>,
    <<-10, -10, -10, -10, 10>>,
    <<-10, 10, 10, -10, -10>>,
    <<10, 10, 10, 10, -10>>,
    <<-10, 10, 10, 10, 10>> }

FistTips == All5(Pt(100, 140))
OneUp == <<-10, 10, -10, -10, -10>>

\* every finger pattern on the fist layout, every layout with one finger up
Poses ==
  { MkPose(Wrist0, FistTips, r) : r \in PipOffsets }
    \cup { MkPose(Wrist0, t, OneUp) : t \in TipShapes }

\* the pose of a second hand, an open hand with three fingers up
SecondHand ==
  MkPose(Pt(40, 150), All5(Pt(40, 60)), <<10, 10, 10, 10, -10>>)

\* results.landmarks of one video frame: no hand, one hand, or two hands
FrameContents ==
  {<<>>} \cup { <<p>> : p \in Poses }
    \cup { <<MkPose(Wrist0, FistTips, r), SecondHand>> :
               r \in { <<-10, 10, 10, -10, -10>> } }

----------------------------------------------------------------------------
(* App.tsx: gesture interpretation inside predictWebcam *)

\* landmarks[tipIdx].y < landmarks[pipIdx].y
isFingerUp(landmarks, tipIdx, pipIdx) == landmarks[tipIdx].y < landmarks[pipIdx].y

\* count of index, middle, ring and pinky that are up
FingerCount(landmarks) ==
  (IF isFingerUp(landmarks, 8, 6) THEN 1 ELSE 0)
  + (IF isFingerUp(landmarks, 12, 10) THEN 1 ELSE 0)
  + (IF isFingerUp(landmarks, 16, 14) THEN 1 ELSE 0)
  + (IF isFingerUp(landmarks, 20, 18) THEN 1 ELSE 0)

\* variant: a fist (no finger extended) resets the mode to idle
NextTargetModeFistIdle(count, mode) ==
  IF count = 1 THEN 1
  ELSE IF count = 2 THEN 2
  ELSE IF count >= 3 THEN 3
  ELSE 0

\* if (count === 1) setTargetMode(1) else if (count === 2) ... ; no call keeps the state
NextTargetMode(count, mode) ==
  IF count = 1 THEN 1
  ELSE IF count = 2 THEN 2
  ELSE IF count >= 3 THEN 3
  ELSE mode

\* Math.sqrt(dx*dx + dy*dy) for one fingertip, in 1/1000
TipDist(landmarks, idx) ==
  LET dx == landmarks[idx].x - landmarks[0].x
      dy == landmarks[idx].y - landmarks[0].y
  IN  Sqrt((dx * dx + dy * dy) * DistPerCoord * DistPerCoord)

\* tips.forEach(...): the sum of the five distances, in 1/1000 (avgSpread * 5)
TotalDist(landmarks) ==
  TipDist(landmarks, 4) + TipDist(landmarks, 8) + TipDist(landmarks, 12)
  + TipDist(landmarks, 16) + TipDist(landmarks, 20)

\* variant: the affine map without the clamp
spreadNormUnclamped(landmarks) == TotalDist(landmarks) - 750

\* Math.min(Math.max((avgSpread - 0.15) * 4, 0), 1), in 1/1250
spreadNorm(landmarks) == Min(Max(TotalDist(landmarks) - 750, 0), DispScale)

\* variant: no hand collapses the dispersion to 0
IdleDispersionCollapsed == 0 * DispScale

IdleDispersion == 125      \* setDispersionFactor(0.1)

\* The body of predictWebcam past its guard: the stale-frame test, the
\* interpretation of a fresh result, and the rescheduling.
\* variant: every iteration runs the detection, stale timestamp or not
FreshFrameAlways == TRUE

\* lastVideoTimeRef.current !== video.currentTime
FreshFrame == lastVideoTimeRef # videoTime

PredictWebcamBody(queued) ==
  /\ requestRef < MaxPolls
  /\ IF FreshFrame
       THEN /\ lastVideoTimeRef' = videoTime
            /\ \E found \in FrameContents : results' = found
            /\ IF Len(results') > 0
                 THEN /\ activeHandCount' = Len(results')
                      /\ targetMode' = NextTargetMode(FingerCount(results'[1]), targetMode)
                      /\ dispersionFactor' = spreadNorm(results'[1])
                 ELSE /\ activeHandCount' = 0
                      /\ dispersionFactor' = IdleDispersion
                      /\ UNCHANGED targetMode
       ELSE UNCHANGED <<lastVideoTimeRef, results, activeHandCount, targetMode,
                        dispersionFactor>>
  /\ requestRef' = requestRef + 1
  /\ rafPending' = queued + 1

\* predictWebcam, run with queued other callbacks waiting: returns at once,
\* scheduling nothing, when a ref is missing
predictWebcam(queued) ==
  IF ~handLandmarkerRef \/ ~mounted
    THEN /\ rafPending' = queued
         /\ UNCHANGED <<lastVideoTimeRef, results, activeHandCount, targetMode,
                        dispersionFactor, requestRef>>
    ELSE PredictWebcamBody(queued)

----------------------------------------------------------------------------
(* App.tsx: start-up, camera and the polling loop *)

appState == <<targetMode, dispersionFactor, activeHandCount>>

\* initMediaPipe settles: the model loaded, or loading failed
InitMediaPipe ==
  /\ mounted /\ loading
  /\ loading' = FALSE
  /\ \E ok \in BOOLEAN : handLandmarkerRef' = ok
  /\ UNCHANGED <<cameraActive, mounted, listener, appState, lastVideoTimeRef,
                 requestRef, rafPending, mediaPending, videoTime, results>>
  /\ UNCHANGED <<simVars, rasterVars>>

\* startCamera up to its await, from the button shown while !cameraActive && !loading
startCamera ==
  /\ mounted /\ ~loading /\ ~cameraActive
  /\ mediaPending < MaxClicks
  /\ mediaPending' = mediaPending + 1
  /\ UNCHANGED <<loading, cameraActive, handLandmarkerRef, mounted, listener,
                 appState, lastVideoTimeRef, requestRef, rafPending, videoTime,
                 results>>
  /\ UNCHANGED <<simVars, rasterVars>>

\* startCamera after its await: getUserMedia settled.  A new srcObject makes the
\* video load again, so 'loadeddata' is due (again); the listener is the same
\* function for calls of one render, and is kept once.
GetUserMedia ==
  /\ mediaPending > 0
  /\ mediaPending' = mediaPending - 1
  /\ \E ok \in BOOLEAN :
       IF ok /\ mounted
         THEN /\ listener' = "armed"
              /\ cameraActive' = TRUE
         ELSE UNCHANGED <<listener, cameraActive>>
  /\ UNCHANGED <<loading, handLandmarkerRef, mounted, appState, lastVideoTimeRef,
                 requestRef, rafPending, videoTime, results>>
  /\ UNCHANGED <<simVars, rasterVars>>

\* the video's 'loadeddata' event: the first frame is there, the listener runs
LoadedData ==
  /\ listener = "armed"
  /\ listener' = "fired"
  /\ UNCHANGED videoTime
  /\ predictWebcam(rafPending)
  /\ UNCHANGED <<loading, cameraActive, handLandmarkerRef, mounted, mediaPending>>
  /\ UNCHANGED <<simVars, rasterVars>>

\* the camera delivers the next frame: video.currentTime advances
VideoFrame ==
  /\ listener = "fired"
  /\ videoTime < MaxFrames
  /\ videoTime' = videoTime + 1
  /\ UNCHANGED <<loading, cameraActive, handLandmarkerRef, mounted, listener,
                 appState, lastVideoTimeRef, requestRef, rafPending, mediaPending,
                 results>>
  /\ UNCHANGED <<simVars, rasterVars>>

\* the browser runs a queued requestAnimationFrame(predictWebcam) callback
AnimationFrame ==
  /\ rafPending > 0
  /\ predictWebcam(rafPending - 1)
  /\ UNCHANGED <<loading, cameraActive, handLandmarkerRef, mounted, listener,
                 mediaPending, videoTime>>
  /\ UNCHANGED <<simVars, rasterVars>>

\* unmount: the effect cleanup cancels the last request, the refs are cleared
Unmount ==
  /\ mounted
  /\ mounted' = FALSE
  /\ rafPending' = IF requestRef # 0 /\ rafPending > 0 THEN rafPending - 1
                                                         ELSE rafPending
  /\ UNCHANGED <<loading, cameraActive, handLandmarkerRef, listener, appState,
                 lastVideoTimeRef, requestRef, mediaPending, videoTime, results>>
  /\ UNCHANGED <<simVars, rasterVars>>

----------------------------------------------------------------------------
(* textUtils: generateTextParticles *)

AlphaThreshold == 128
WorldPerHalfPixel == 75    \* scale 0.15 per pixel = 0.075 per half pixel, in 1/1000

\* canvas height = size * 1.5
CanvasHeight(size) == (size * 3) \div 2

\* data[index + 3] with index = (y * width + x) * 4; data is 1-based here
AlphaAt(data, width, x, y) == data[(y * width + x) * 4 + 3 + 1]

\* for (x = x0; x < width; x += 2) if (alpha > 128) validPixels.push({x, y})
RECURSIVE ScanRow(_, _, _, _, _)
ScanRow(data, width, y, x, acc) ==
  IF x >= width THEN acc
  ELSE ScanRow(data, width, y, x + 2,
               IF AlphaAt(data, width, x, y) > AlphaThreshold
                 THEN Append(acc, [x |-> x, y |-> y])
                 ELSE acc)

\* for (y = y0; y < height; y += 2) { inner loop }
RECURSIVE ScanRows(_, _, _, _, _)
ScanRows(data, width, height, y, acc) ==
  IF y >= height THEN acc
  ELSE ScanRows(data, width, height, y + 2, ScanRow(data, width, y, 0, acc))

validPixels(data, width, height) == ScanRows(data, width, height, 0, <<>>)

\* variant: the vertical axis is not flipped
PixelToWorldNoFlip(pixel, width, height) ==
  << (2 * pixel.x - width) * WorldPerHalfPixel,
     (2 * pixel.y - height) * WorldPerHalfPixel,
     0 >>

\* new THREE.Vector3((pixel.x - cx) * scale, -(pixel.y - cy) * scale, 0), cx = width / 2
PixelToWorld(pixel, width, height) ==
  << (2 * pixel.x - width) * WorldPerHalfPixel,
     -((2 * pixel.y - height) * WorldPerHalfPixel),
     0 >>

\* variant: the pixels are subsampled with a stride of two
PickPixelStrided(pixels, i) == pixels[((2 * i) % Len(pixels)) + 1]

\* validPixels[i % validPixels.length], i counted from 0
PickPixel(pixels, i) == pixels[(i % Len(pixels)) + 1]

\* generateTextParticles: canvas stands for what the 2d context renders,
\* [ctx, width, data]; ctx = FALSE is getContext('2d') returning null
\* variant: no pixel is reused, the loop stops at the last valid pixel
LoopBoundNoReuse(pixels, particleCount) == Min(particleCount, Len(pixels))

\* the bound of the output loop: for (let i = 0; i < particleCount; i++)
LoopBound(pixels, particleCount) == particleCount

\* generateTextParticles past the context check
RasterizeCanvas(canvas, size, particleCount) ==
  LET width == canvas.width
      height == CanvasHeight(size)
      pixels == validPixels(canvas.data, width, height)
  IN  IF Len(pixels) = 0 THEN <<>>
      ELSE [i \in 1 .. LoopBound(pixels, particleCount) |->
              PixelToWorld(PickPixel(pixels, i - 1), width, height)]

\* variant: without a context, one placeholder point at the origin is returned
generateTextParticlesPlaceholder(canvas, size, particleCount) ==
  IF ~canvas.ctx THEN << <<0, 0, 0>> >>
  ELSE RasterizeCanvas(canvas, size, particleCount)

generateTextParticles(canvas, size, particleCount) ==
  IF ~canvas.ctx THEN <<>>
  ELSE RasterizeCanvas(canvas, size, particleCount)

\* the image data of a width x height bitmap drawn in white with the given
\* per-pixel alphas (row-major)
ImageData(alphas) ==
  [k \in 1 .. 4 * Len(alphas) |->
     IF k % 4 = 0 THEN alphas[k \div 4] ELSE 255]

Alphas == {128, 129}
RasterSize == 2            \* font size of the rasterizer runs: a 3-row canvas

CanvasesOfWidth(w) ==
  { [ctx |-> c, width |-> w, data |-> ImageData(a)] :
      c \in BOOLEAN, a \in [1 .. w * CanvasHeight(RasterSize) -> Alphas] }

Canvases == UNION { CanvasesOfWidth(w) : w \in 1 .. RasterWidth }

----------------------------------------------------------------------------
(* ParticleSystem *)

\* integer division rounding toward zero, as the fixed-point image of a float product
Div(a, b) == IF a >= 0 THEN a \div b ELSE -((-a) \div b)

VAdd(a, b) == <<a[1] + b[1], a[2] + b[2], a[3] + b[3]>>
VSub(a, b) == <<a[1] - b[1], a[2] - b[2], a[3] - b[3]>>

\* Vector3.length(), in 1/1000 (beyond 26 units, computed in 1/100)
VLength(v) ==
  IF Abs(v[1]) < 26000 /\ Abs(v[2]) < 26000 /\ Abs(v[3]) < 26000
    THEN Sqrt(v[1] * v[1] + v[2] * v[2] + v[3] * v[3])
    ELSE LET a == Div(v[1], 10)  b == Div(v[2], 10)  c == Div(v[3], 10)
         IN  10 * Sqrt(a * a + b * b + c * c)

\* Math.sin of an angle in 1/100 rad, in 1/1000 (Bhaskara's rational approximation)
HalfTurn == 314
SinArc(x) == (16000 * x * (HalfTurn - x)) \div (5 * HalfTurn * HalfTurn - 4 * x * (HalfTurn - x))
Sin(a) ==
  LET r == a % (2 * HalfTurn)
  IN  IF r <= HalfTurn THEN SinArc(r) ELSE -SinArc(r - HalfTurn)
Cos(a) == Sin(a + HalfTurn \div 2)

\* the text drawn for a mode at size 2: what the 2d context renders
Glyph1 == [ctx |-> TRUE, width |-> 3, data |-> ImageData(<<255, 0, 0, 0, 0, 0, 0, 0, 0>>)]
Glyph2 == [ctx |-> TRUE, width |-> 4, data |-> ImageData(<<255, 0, 255, 0, 0, 0, 0, 0, 255, 0, 0, 0>>)]
Glyph3 == [ctx |-> TRUE, width |-> 3, data |-> ImageData(<<255, 200, 255, 0, 0, 0, 255, 90, 255>>)]
Blank3 == [ctx |-> TRUE, width |-> 3, data |-> ImageData(<<0, 0, 0, 0, 0, 0, 0, 0, 0>>)]
NoContext == [ctx |-> FALSE, width |-> 0, data |-> <<>>]

\* the canvases generateTextParticles can meet for TEXT_1, TEXT_2, TEXT_3_SAFE
Rendering(mode) ==
  IF mode = 1 THEN {Glyph1, NoContext}
  ELSE IF mode = 2 THEN {Glyph2}
  ELSE {Glyph3, Blank3}

\* the canvases the three calls of one timer callback meet: every text drawn, or
\* no context for the first text and nothing drawn of the third
TimerCanvases == { <<Glyph1, Glyph2, Glyph3>>, <<NoContext, Glyph2, Blank3>> }

\* the setTimeout callback of the pre-generation effect
GenerateTargets ==
  /\ timerPending
  /\ timerPending' = FALSE
  /\ \E met \in TimerCanvases :
       /\ canvases' = met
       /\ targets' = [m \in 1 .. 3 |->
                        generateTextParticles(canvases'[m], RasterSize, PARTICLE_COUNT)]
  /\ UNCHANGED <<particles, positions, colors, ticks, tick>>
  /\ UNCHANGED <<appVars, rasterVars>>

color1 == <<0, 1000, 1000>>       \* "#00ffff"
color2 == <<1000, 0, 1000>>       \* "#ff00ff"
color3 == <<1000, 1000, 0>>       \* "#ffff00"
colorIdle == <<267, 267, 267>>    \* "#444444"

\* targets.current[mode] || []
CurrentTargets(mode) == IF mode \in DOMAIN targets THEN targets[mode] ELSE <<>>

\* variant: the third text has no colour of its own
TargetColorTwoModes(mode, hasHand) ==
  IF ~hasHand THEN colorIdle
  ELSE IF mode = 1 THEN color1
  ELSE IF mode = 2 THEN color2
  ELSE colorIdle

TargetColor(mode, hasHand) ==
  IF ~hasHand THEN colorIdle
  ELSE IF mode = 1 THEN color1
  ELSE IF mode = 2 THEN color2
  ELSE IF mode = 3 THEN color3
  ELSE colorIdle

\* the noise vector added when dispersion > 0.1; i from 0, time in 1/100 s
Noise(i, time, dispersion) ==
  << Div(Sin(i * 10 + time) * dispersion, 125),
     Div(Cos(i * 13 + time) * dispersion, 125),
     Div(Sin(i * 15 + time) * 3 * dispersion, 250) >>

\* the idle formation point of particle i
IdlePoint(i, time) ==
  LET theta == (i * 2 * HalfTurn) \div PARTICLE_COUNT + time \div 10
      phi == ((i % 100) * HalfTurn) \div 100
  IN  << Div(Sin(theta) * Sin(phi), 100),
         Cos(theta) * 10,
         Div(Cos(phi) * Sin(theta), 100) >>

\* variant: the noise already applies at dispersion 0.1
DispersedInclusive(dispersion) == dispersion >= 125

\* dispersion > 0.1
Dispersed(dispersion) == dispersion > 125

\* variant: with a hand but no points the target stays at the origin
ResolveTargetOrigin(i, time, dispersion, hasHand, currentTargets) ==
  IF hasHand
    THEN IF Len(currentTargets) > 0
           THEN LET targetPoint == currentTargets[(i % Len(currentTargets)) + 1]
                IN  IF Dispersed(dispersion)
                      THEN VAdd(targetPoint, Noise(i, time, dispersion))
                      ELSE targetPoint
           ELSE <<0, 0, 0>>
    ELSE IdlePoint(i, time)

\* variant: the point after the particle's own is taken
ResolveTargetShifted(i, time, dispersion, hasHand, currentTargets) ==
  IF hasHand /\ Len(currentTargets) > 0
    THEN LET targetPoint == currentTargets[((i + 1) % Len(currentTargets)) + 1]
         IN  IF Dispersed(dispersion)
               THEN VAdd(targetPoint, Noise(i, time, dispersion))
               ELSE targetPoint
    ELSE IdlePoint(i, time)

\* step 1 of the loop body: the target of particle i
ResolveTarget(i, time, dispersion, hasHand, currentTargets) ==
  IF hasHand /\ Len(currentTargets) > 0
    THEN LET targetPoint == currentTargets[(i % Len(currentTargets)) + 1]
         IN  IF Dispersed(dispersion)
               THEN VAdd(targetPoint, Noise(i, time, dispersion))
               ELSE targetPoint
    ELSE IdlePoint(i, time)

\* maxSpeed = 0.5 + dispersion * 1.5, in 1/1000
MaxSpeed(dispersion) == 500 + (dispersion * 6) \div 5

\* variant: the arrival speed is not clamped by maxSpeed
SeekForceUnclamped(targetVec, position, dispersion) ==
  LET force == VSub(targetVec, position)
      dist == VLength(force)
  IN  IF dist = 0 THEN <<0, 0, 0>>
      ELSE << Div(force[1] * dist, 10 * dist),
              Div(force[2] * dist, 10 * dist),
              Div(force[3] * dist, 10 * dist) >>

\* force.normalize().multiplyScalar(Math.min(dist * 0.1, maxSpeed))
SeekForce(targetVec, position, dispersion) ==
  LET force == VSub(targetVec, position)
      dist == VLength(force)
      reach == Min(dist, 10 * MaxSpeed(dispersion))
  IN  IF dist = 0 THEN <<0, 0, 0>>
      ELSE << Div(force[1] * reach, 10 * dist),
              Div(force[2] * reach, 10 * dist),
              Div(force[3] * reach, 10 * dist) >>

\* p.velocity.add(force).multiplyScalar(0.92)
Damp(v) == <<Div(v[1] * 92, 100), Div(v[2] * 92, 100), Div(v[3] * 92, 100)>>

\* steps 2: the particle after the physics update
StepParticle(p, targetVec, dispersion) ==
  LET velocity == Damp(VAdd(p.velocity, SeekForce(targetVec, p.position, dispersion)))
  IN  [position |-> VAdd(p.position, velocity),
       velocity |-> velocity,
       targetIndex |-> p.targetIndex]

\* variant: the step factor is 1.05 instead of 0.05
LerpOvershoot(c, t) == c + Div((t - c) * 105, 100)

\* colors[k] += (targetColor - colors[k]) * 0.05
Lerp(c, t) == c + Div((t - c) * 5, 100)

\* targets.current[mode] || [] on the cache as the loop finds it
CurrentTargetsOf(cache, mode) == IF mode \in DOMAIN cache THEN cache[mode] ELSE <<>>

\* variant: hasHand is the value an earlier callback closed over
TickInputsStaleHand ==
  [time |-> tick.time + FrameTime,
   mode |-> targetMode,
   dispersion |-> dispersionFactor,
   hasHand |-> tick.hasHand]

\* the props and the clock one run of the callback works with
TickInputs ==
  [time |-> tick.time + FrameTime,
   mode |-> targetMode,
   dispersion |-> dispersionFactor,
   hasHand |-> activeHandCount > 0]

\* what the loop reads and writes: the particles, the two buffers and, through
\* currentTargets, the points of the cache
Buffers ==
  [particles |-> particles, positions |-> positions, colors |-> colors,
   targets |-> targets]

\* the buffer indexes i * 3, i * 3 + 1, i * 3 + 2 of particle i (here from 1)
SlotsOf(i) == {3 * (i - 1) + 1, 3 * (i - 1) + 2, 3 * (i - 1) + 3}

\* variant: targetVec is the cached point itself, not a copy, so the noise is
\* added to the point in the cache
LoopBodyAliased(st, i, in) ==
  LET currentTargets == CurrentTargetsOf(st.targets, in.mode)
      targetVec == ResolveTarget(i - 1, in.time, in.dispersion, in.hasHand, currentTargets)
      p == StepParticle(st.particles[i], targetVec, in.dispersion)
      targetColor == TargetColor(in.mode, in.hasHand)
  IN  [particles |-> [st.particles EXCEPT ![i] = p],
       positions |-> [k \in DOMAIN st.positions |->
                        IF k \in SlotsOf(i) THEN p.position[((k - 1) % 3) + 1]
                                            ELSE st.positions[k]],
       colors |-> [k \in DOMAIN st.colors |->
                     IF k \in SlotsOf(i) THEN Lerp(st.colors[k], targetColor[((k - 1) % 3) + 1])
                                         ELSE st.colors[k]],
       targets |-> IF in.hasHand /\ Len(currentTargets) > 0
                     THEN [st.targets EXCEPT
                             ![in.mode][((i - 1) % Len(currentTargets)) + 1] = targetVec]
                     ELSE st.targets]

\* variant: the buffer index is computed from a particle number that starts at 1,
\* so the position lands in the slots of the next particle (past the end: dropped)
LoopBodyShiftedSlots(st, i, in) ==
  LET currentTargets == CurrentTargetsOf(st.targets, in.mode)
      targetVec == ResolveTarget(i - 1, in.time, in.dispersion, in.hasHand, currentTargets)
      p == StepParticle(st.particles[i], targetVec, in.dispersion)
      targetColor == TargetColor(in.mode, in.hasHand)
  IN  [particles |-> [st.particles EXCEPT ![i] = p],
       positions |-> [k \in DOMAIN st.positions |->
                        IF k \in SlotsOf(i + 1) THEN p.position[((k - 1) % 3) + 1]
                                                ELSE st.positions[k]],
       colors |-> [k \in DOMAIN st.colors |->
                     IF k \in SlotsOf(i) THEN Lerp(st.colors[k], targetColor[((k - 1) % 3) + 1])
                                         ELSE st.colors[k]],
       targets |-> st.targets]

\* variant: the colour is read from the slots of the particle before
LoopBodyNeighbour(st, i, in) ==
  LET currentTargets == CurrentTargetsOf(st.targets, in.mode)
      targetVec == ResolveTarget(i - 1, in.time, in.dispersion, in.hasHand, currentTargets)
      p == StepParticle(st.particles[i], targetVec, in.dispersion)
      targetColor == TargetColor(in.mode, in.hasHand)
  IN  [particles |-> [st.particles EXCEPT ![i] = p],
       positions |-> [k \in DOMAIN st.positions |->
                        IF k \in SlotsOf(i) THEN p.position[((k - 1) % 3) + 1]
                                            ELSE st.positions[k]],
       colors |-> [k \in DOMAIN st.colors |->
                     IF k \in SlotsOf(i)
                       THEN Lerp(st.colors[IF k > 3 THEN k - 3 ELSE k],
                                 targetColor[((k - 1) % 3) + 1])
                       ELSE st.colors[k]],
       targets |-> st.targets]

\* the loop body for particle i (here from 1): target, physics, buffer writes,
\* colour; targetVec.copy(targetPoint) leaves the cached point alone
LoopBody(st, i, in) ==
  LET currentTargets == CurrentTargetsOf(st.targets, in.mode)
      targetVec == ResolveTarget(i - 1, in.time, in.dispersion, in.hasHand, currentTargets)
      p == StepParticle(st.particles[i], targetVec, in.dispersion)
      targetColor == TargetColor(in.mode, in.hasHand)
  IN  [particles |-> [st.particles EXCEPT ![i] = p],
       positions |-> [k \in DOMAIN st.positions |->
                        IF k \in SlotsOf(i) THEN p.position[((k - 1) % 3) + 1]
                                            ELSE st.positions[k]],
       colors |-> [k \in DOMAIN st.colors |->
                     IF k \in SlotsOf(i) THEN Lerp(st.colors[k], targetColor[((k - 1) % 3) + 1])
                                         ELSE st.colors[k]],
       targets |-> st.targets]

\* the loop bodies of the particles of order, one after the other
RECURSIVE Pass(_, _, _)
Pass(st, order, in) ==
  IF order = <<>> THEN st
  ELSE Pass(LoopBody(st, Head(order), in), Tail(order), in)

\* for (let i = 0; i < PARTICLE_COUNT; i++)
LoopOrder == [i \in 1 .. PARTICLE_COUNT |-> i]

\* the body of the useFrame callback, run when meshRef.current is set
FrameCallback ==
  /\ mounted
  /\ ticks' = ticks + 1
  /\ LET in == TickInputs
         currentTargets == CurrentTargets(in.mode)
         done == Pass(Buffers, LoopOrder, in)
     IN  /\ particles' = done.particles
         /\ positions' = done.positions
         /\ colors' = done.colors
         /\ targets' = done.targets
         /\ tick' = [time |-> in.time, mode |-> in.mode, dispersion |-> in.dispersion,
                     hasHand |-> in.hasHand, keyed |-> in.mode \in DOMAIN targets,
                     hasTargets |-> Len(currentTargets) > 0,
                     targetColor |-> TargetColor(in.mode, in.hasHand),
                     targetVec |-> [i \in 1 .. PARTICLE_COUNT |->
                                      ResolveTarget(i - 1, in.time, in.dispersion,
                                                    in.hasHand, currentTargets)]]
  /\ UNCHANGED <<timerPending, canvases>>
  /\ UNCHANGED <<appVars, rasterVars>>

\* the useFrame callback, once per rendered frame
useFrame ==
  /\ ticks < MaxTicks
  /\ FrameCallback

\* the positions Math.random() draws at construction, in 1/1000
Seeds == {0}
RandomPosition(seed, i) ==
  << ((i * 7000 + seed * 3000) % 10000) - 5000,
     ((i * 3000 + seed * 9000) % 10000) - 5000,
     ((i * 1000 + seed * 2000) % 4000) - 2000 >>

SimInit ==
  /\ targets = <<>>
  /\ timerPending = TRUE
  /\ canvases = <<>>
  /\ \E seed \in Seeds :
       particles = [i \in 1 .. PARTICLE_COUNT |->
                      [position |-> RandomPosition(seed, i - 1),
                       velocity |-> <<0, 0, 0>>,
                       targetIndex |-> i - 1]]
  /\ positions = [k \in 1 .. 3 * PARTICLE_COUNT |-> 0]
  /\ colors = [k \in 1 .. 3 * PARTICLE_COUNT |-> 0]
  /\ ticks = 0
  /\ tick = [time |-> 0, mode |-> 0, dispersion |-> 0, hasHand |-> FALSE,
             keyed |-> FALSE, hasTargets |-> FALSE, targetColor |-> colorIdle,
             targetVec |-> [i \in 1 .. PARTICLE_COUNT |-> <<0, 0, 0>>]]

\* variant: the mode starts idle
InitialTargetModeIdle == 1 - 1

InitialTargetMode == 1     \* useState<number>(1)

AppInit ==
  /\ loading = TRUE
  /\ cameraActive = FALSE
  /\ handLandmarkerRef = FALSE
  /\ mounted = TRUE
  /\ listener = "none"
  /\ targetMode = InitialTargetMode
  /\ dispersionFactor = 0
  /\ activeHandCount = 0
  /\ lastVideoTimeRef = -1
  /\ requestRef = 0
  /\ rafPending = 0
  /\ mediaPending = 0
  /\ videoTime = 0
  /\ results = <<>>

\* a call of generateTextParticles on its own
RasterCalls ==
  { [canvas |-> c, size |-> RasterSize, particleCount |-> n] :
      c \in Canvases, n \in 0 .. MaxPoints }

RasterIdle ==
  /\ rasterArgs = [canvas |-> NoContext, size |-> RasterSize, particleCount |-> 0]
  /\ rasterRet = [done |-> FALSE, points |-> <<>>]

CallRasterizer ==
  /\ ~rasterRet.done
  /\ rasterRet' = [done |-> TRUE,
                   points |-> generateTextParticles(rasterArgs.canvas, rasterArgs.size,
                                                    rasterArgs.particleCount)]
  /\ UNCHANGED <<rasterArgs, appVars, simVars>>

vars == <<appVars, simVars, rasterVars>>

Init == AppInit /\ SimInit /\ RasterIdle

Next ==
  \/ InitMediaPipe
  \/ startCamera
  \/ GetUserMedia
  \/ LoadedData
  \/ VideoFrame
  \/ AnimationFrame
  \/ Unmount
  \/ GenerateTargets
  \/ useFrame

Spec == Init /\ [][Next]_vars

\* the rasterizer alone, on every canvas and particle count of the bounds
RasterInit ==
  /\ AppInit /\ SimInit
  /\ rasterArgs \in RasterCalls
  /\ rasterRet = [done |-> FALSE, points |-> <<>>]

RasterNext == CallRasterizer

RasterSpec == RasterInit /\ [][RasterNext]_vars

\* the control states a polling iteration leaves behind: a sample processed in mode m
HeldControls ==
  { [mode |-> IF Len(f) > 0 THEN NextTargetMode(FingerCount(f[1]), m) ELSE m,
     dispersion |-> IF Len(f) > 0 THEN spreadNorm(f[1]) ELSE IdleDispersion,
     found |-> f] : f \in FrameContents, m \in 1 .. 3 }

\* the text canvases of the three modes, as the pre-generation effect met them
HeldCanvases ==
  { <<c1, c2, c3>> : c1 \in Rendering(1), c2 \in Rendering(2), c3 \in Rendering(3) }

\* Math.random() over the whole range of the construction: 50 x 50 x 20 units
\* (seed 2: the draws that put every particle on its point of the third text)
RunSeeds == {0, 1, 2}
StartPosition(seed, i) ==
  LET r == RandomPosition(seed, i)
  IN  IF seed = 0 THEN r
      ELSE IF seed = 1 THEN <<5 * r[1], 5 * r[2], 5 * r[3]>>
      ELSE generateTextParticles(Glyph3, RasterSize, PARTICLE_COUNT)[i + 1]

\* the channel c after n callbacks with target channel t
RECURSIVE LerpTimes(_, _, _)
LerpTimes(c, t, n) == IF n = 0 THEN c ELSE LerpTimes(Lerp(c, t), t, n - 1)

\* the colour buffer as earlier callbacks left it: untouched, or WarmTicks
\* callbacks toward the colour of an earlier mode or of no hand
PriorColors ==
  { [k \in 1 .. 3 * PARTICLE_COUNT |-> 0] }
    \cup { [k \in 1 .. 3 * PARTICLE_COUNT |-> LerpTimes(0, c[((k - 1) % 3) + 1], WarmTicks)] :
              c \in {color1, color2, colorIdle} }

\* the simulation on its own: the camera runs, one sample was processed and
\* the control state is held while frames are rendered
FrameInit ==
  /\ loading = FALSE
  /\ cameraActive = TRUE
  /\ handLandmarkerRef = TRUE
  /\ mounted = TRUE
  /\ listener = "fired"
  /\ \E c \in HeldControls :
       /\ targetMode = c.mode
       /\ dispersionFactor = c.dispersion
       /\ activeHandCount = Len(c.found)
       /\ results = c.found
  /\ lastVideoTimeRef = 0
  /\ requestRef = 1
  /\ rafPending = 1
  /\ mediaPending = 0
  /\ videoTime = 0
  /\ timerPending = FALSE
  /\ canvases \in HeldCanvases
  /\ targets = [m \in 1 .. 3 |->
                  generateTextParticles(canvases[m], RasterSize, PARTICLE_COUNT)]
  /\ \E seed \in RunSeeds :
       particles = [i \in 1 .. PARTICLE_COUNT |->
                      [position |-> StartPosition(seed, i - 1),
                       velocity |-> <<0, 0, 0>>,
                       targetIndex |-> i - 1]]
  /\ positions = [k \in 1 .. 3 * PARTICLE_COUNT |-> 0]
  /\ colors \in PriorColors
  /\ ticks = 0
  /\ tick = [time |-> 0, mode |-> 0, dispersion |-> 0, hasHand |-> FALSE,
             keyed |-> FALSE, hasTargets |-> FALSE, targetColor |-> colorIdle,
             targetVec |-> [i \in 1 .. PARTICLE_COUNT |-> <<0, 0, 0>>]]
  /\ RasterIdle

\* the useFrame callback of a long run
RunFrame ==
  /\ ticks < MaxRun
  /\ FrameCallback

FrameNext == RunFrame

FrameSpec == FrameInit /\ [][FrameNext]_vars

----------------------------------------------------------------------------
(* Properties of the gesture interpreter *)

\* the four fingers counted for the mode, as (tip, proximal joint) landmarks
CountedFingers == { <<8, 6>>, <<12, 10>>, <<16, 14>>, <<20, 18>> }

\* fingers of a pose whose tip y is strictly less than the joint's y
ExtendedCount(pose) == Cardinality({ f \in CountedFingers : pose[f[1]].y < pose[f[2]].y })

\* this step processed a fresh sample
ProcessedSample == lastVideoTimeRef' # lastVideoTimeRef

\* C1: a fresh sample with a hand sets the mode to 1, 2, 3 for one, two, three
\* or four extended fingers, keeps the mode held before for none, and makes
\* handActive true.
C1_ModeFromFingers ==
  [][ (ProcessedSample /\ Len(results') > 0) =>
        /\ targetMode' = CASE ExtendedCount(results'[1]) = 1 -> 1
                           [] ExtendedCount(results'[1]) = 2 -> 2
                           [] ExtendedCount(results'[1]) \in {3, 4} -> 3
                           [] OTHER -> targetMode
        /\ activeHandCount' > 0 ]_vars

\* a fist (no finger extended) was processed while mode 3 was held, and mode 3 is kept
C1_Witness ==
  /\ lastVideoTimeRef = videoTime
  /\ Len(results) > 0
  /\ ExtendedCount(results[1]) = 0
  /\ targetMode = 3
  /\ activeHandCount > 0

\* C2: a fresh sample without a hand keeps the mode, sets dispersion to 0.1
\* and handActive to false.
C2_NoHandSample ==
  [][ (ProcessedSample /\ Len(results') = 0) =>
        /\ targetMode' = targetMode
        /\ 10 * dispersionFactor' = DispScale
        /\ activeHandCount' = 0 ]_vars

\* the hand was lost after a mode-3 pose: mode 3, dispersion 0.1, no hand
C2_Witness ==
  /\ lastVideoTimeRef = videoTime
  /\ videoTime > 0
  /\ results = <<>>
  /\ targetMode = 3
  /\ 10 * dispersionFactor = DispScale
  /\ activeHandCount = 0

\* C3: an iteration that finds the timestamp it last processed changes neither
\* mode, dispersion nor handActive, and still requests the next iteration.
C3_StaleSampleSkipped ==
  [][ (requestRef' # requestRef /\ lastVideoTimeRef = videoTime) =>
        /\ UNCHANGED <<targetMode, dispersionFactor, activeHandCount>>
        /\ UNCHANGED <<lastVideoTimeRef, results>>
        /\ rafPending' > 0 ]_vars

\* two iterations ran on the first frame: the second met a stale timestamp
C3_Witness ==
  /\ requestRef = 2
  /\ videoTime = 0
  /\ lastVideoTimeRef = videoTime
  /\ activeHandCount > 0
  /\ rafPending > 0

\* this step processed a fresh sample showing at least one extended finger
ProcessedExtendedSample ==
  ProcessedSample /\ Len(results') > 0 /\ ExtendedCount(results'[1]) >= 1

\* C4 as stated: the mode is 0 initially and stays 0 until a sample with an
\* extended finger is processed.
C4_DefaultModeIdle ==
  /\ targetMode = 0
  /\ [][ (targetMode = 0 /\ ~ProcessedExtendedSample) => targetMode' = 0 ]_vars

\* C4 amended: the mode is 1 initially and stays 1 until a sample with an
\* extended finger is processed.
C4_DefaultModeOne ==
  /\ targetMode = 1
  /\ [][ (targetMode = 1 /\ ~ProcessedExtendedSample) => targetMode' = 1 ]_vars

\* samples were processed, a fist last, and the mode still is the default
C4_Witness ==
  /\ lastVideoTimeRef = videoTime
  /\ videoTime > 0
  /\ Len(results) > 0
  /\ ExtendedCount(results[1]) = 0
  /\ targetMode = 1

\* mean distance from the wrist to the five fingertips, times 5, in 1/1000
SpreadTimes5(pose) ==
  LET d(k) == Sqrt(25 * ((pose[k].x - pose[0].x) * (pose[k].x - pose[0].x)
                         + (pose[k].y - pose[0].y) * (pose[k].y - pose[0].y)))
  IN  d(4) + d(8) + d(12) + d(16) + d(20)

\* clamp((spread - 0.15) * 4, 0, 1) in 1/1250: (T/5000 - 0.15) * 4 = (T - 750)/1250
ClampedSpread(pose) ==
  LET raw == SpreadTimes5(pose) - 750
  IN  IF raw < 0 THEN 0 ELSE IF raw > DispScale THEN DispScale ELSE raw

\* C5: the mode is one of 0..3, the dispersion lies in [0, 1], and with a hand
\* present it is clamp((spread - 0.15) * 4, 0, 1).
C5_ControlStateRange ==
  /\ targetMode \in {0, 1, 2, 3}
  /\ dispersionFactor >= 0 /\ dispersionFactor <= DispScale
  /\ activeHandCount > 0 =>
       /\ Len(results) > 0
       /\ dispersionFactor = ClampedSpread(results[1])

\* a hand is present with a spread strictly inside the calibrated range
C5_Witness ==
  /\ activeHandCount > 0
  /\ SpreadTimes5(results[1]) > 750
  /\ SpreadTimes5(results[1]) < 750 + DispScale
  /\ dispersionFactor = SpreadTimes5(results[1]) - 750

----------------------------------------------------------------------------
(* Properties of the particle simulator's target resolution *)

\* this step is a simulation tick
TickStep == ticks' = ticks + 1

\* the point set cached for the mode the tick runs with; empty when no key
ActiveSet == IF targetMode \in DOMAIN targets THEN targets[targetMode] ELSE <<>>

Particles == 1 .. PARTICLE_COUNT

\* C6: a tick without a hand, or whose mode has no points yet or an empty
\* set, sends every particle to its idle formation point and updates all N
\* particles; a tick with a hand and a non-empty set takes every target from
\* that set.
C6_IdleFallback ==
  [][ TickStep =>
        /\ DOMAIN particles' = Particles
        /\ DOMAIN tick'.targetVec = Particles
        /\ \A i \in Particles : \A c \in 1 .. 3 :
             positions'[3 * (i - 1) + c] = particles'[i].position[c]
        /\ (activeHandCount = 0 \/ ActiveSet = <<>>) =>
             \A i \in Particles : tick'.targetVec[i] = IdlePoint(i - 1, tick'.time)
        /\ (activeHandCount > 0 /\ ActiveSet # <<>>) =>
             \A i \in Particles : \E k \in DOMAIN ActiveSet :
               tick'.targetVec[i] \in
                 { ActiveSet[k],
                   VAdd(ActiveSet[k], Noise(i - 1, tick'.time, dispersionFactor)) } ]_vars

\* a tick ran with a hand while the mode's set was computed but empty
C6_Witness ==
  /\ ticks > 0
  /\ tick.hasHand /\ tick.keyed /\ ~tick.hasTargets
  /\ \A i \in Particles : tick.targetVec[i] = IdlePoint(i - 1, tick.time)

\* C7: with a hand and a non-empty set S, particle i aims at S[i mod |S|],
\* plus the noise offset exactly when dispersion > 0.1.
C7_TargetAndNoise ==
  [][ (TickStep /\ activeHandCount > 0 /\ ActiveSet # <<>>) =>
        \A i \in Particles :
          LET base == ActiveSet[((i - 1) % Len(ActiveSet)) + 1]
          IN  tick'.targetVec[i] =
                IF 10 * dispersionFactor > DispScale
                  THEN VAdd(base, Noise(i - 1, tick'.time, dispersionFactor))
                  ELSE base ]_vars

\* a tick ran with a hand, a non-empty set and dispersion exactly 0.1
C7_Witness ==
  /\ ticks > 0
  /\ tick.hasHand /\ tick.hasTargets
  /\ 10 * tick.dispersion = DispScale
  /\ \E i \in Particles : Noise(i - 1, tick.time, tick.dispersion) # <<0, 0, 0>>

\* C10: without a drawing context the mode's set is empty, every tick run
\* with that mode seeks the idle formation, and once the timer has fired the
\* cache is never computed again.
C10_NoContextFallsBackForever ==
  [][ /\ \A m \in DOMAIN canvases' :
           ~canvases'[m].ctx => (m \in DOMAIN targets' /\ targets'[m] = <<>>)
      /\ (TickStep /\ targetMode \in DOMAIN canvases /\ ~canvases[targetMode].ctx) =>
           \A i \in Particles : tick'.targetVec[i] = IdlePoint(i - 1, tick'.time)
      /\ ~timerPending =>
           (~timerPending' /\ targets' = targets /\ canvases' = canvases) ]_vars

\* a tick ran with a hand on mode 1 after its canvas had no context
C10_Witness ==
  /\ ticks > 0
  /\ tick.hasHand /\ tick.keyed /\ tick.mode = 1
  /\ ~canvases[1].ctx
  /\ targets[1] = <<>>
  /\ \A i \in Particles : tick.targetVec[i] = IdlePoint(i - 1, tick.time)

----------------------------------------------------------------------------
(* Properties of the rasterizer *)

\* the sampled pixels: even x, even y, alpha strictly above 128
SampledPixels(canvas, height) ==
  { q \in (0 .. canvas.width - 1) \X (0 .. height - 1) :
      /\ q[1] % 2 = 0
      /\ q[2] % 2 = 0
      /\ canvas.data[4 * (q[2] * canvas.width + q[1]) + 4] > 128 }

\* the pixel at position k (from 0) of the row-major order of a pixel set
NthRowMajor(pixelSet, k) ==
  CHOOSE q \in pixelSet :
    Cardinality({ r \in pixelSet : r[2] < q[2] \/ (r[2] = q[2] /\ r[1] < q[1]) }) = k

\* (px - width/2) * 0.15, -(py - height/2) * 0.15, 0 in 1/1000
CenterFlipScale(q, width, height) ==
  << ((2 * q[1] - width) * 150) \div 2, -(((2 * q[2] - height) * 150) \div 2), 0 >>

RasterHeight == (3 * rasterArgs.size) \div 2
RasterM == Cardinality(SampledPixels(rasterArgs.canvas, RasterHeight))

\* C8: with maxPoints > 0 the rasterizer returns exactly maxPoints points
\* when some sampled pixel is above the threshold and none otherwise.
C8_OutputLength ==
  (rasterRet.done /\ rasterArgs.canvas.ctx /\ rasterArgs.particleCount > 0) =>
    Len(rasterRet.points) = IF RasterM > 0 THEN rasterArgs.particleCount ELSE 0

\* a call returned more points than there are valid pixels
C8_Witness ==
  /\ rasterRet.done /\ rasterArgs.canvas.ctx
  /\ RasterM >= 2
  /\ rasterArgs.particleCount > RasterM
  /\ Len(rasterRet.points) = rasterArgs.particleCount

\* C9: output point i is the centred, flipped and scaled pixel at position
\* i mod M of the row-major scan, hence equal to output point i mod M.
C9_PointOfPixel ==
  (rasterRet.done /\ rasterArgs.canvas.ctx) =>
    \A i \in 0 .. Len(rasterRet.points) - 1 :
      /\ rasterRet.points[i + 1] =
           CenterFlipScale(
             NthRowMajor(SampledPixels(rasterArgs.canvas, RasterHeight), i % RasterM),
             rasterArgs.canvas.width, RasterHeight)
      /\ rasterRet.points[i + 1] = rasterRet.points[(i % RasterM) + 1]

\* a call wrapped around a scan holding pixels of both sampled rows
C9_Witness ==
  /\ rasterRet.done /\ rasterArgs.canvas.ctx
  /\ RasterM >= 3
  /\ Len(rasterRet.points) > RasterM
  /\ \E i \in DOMAIN rasterRet.points : rasterRet.points[i][2] < 0
  /\ \E i \in DOMAIN rasterRet.points : rasterRet.points[i][2] > 0

\* the world points of the valid pixels at scan positions from..to - 1
ScanPoints(from, to) ==
  { CenterFlipScale(NthRowMajor(SampledPixels(rasterArgs.canvas, RasterHeight), k),
                    rasterArgs.canvas.width, RasterHeight) : k \in from .. to - 1 }

----------------------------------------------------------------------------
(* Properties of the steering step *)

\* the tick about to run resolves a fixed target: hand, points, no noise
FixedTarget ==
  /\ activeHandCount > 0
  /\ Len(CurrentTargets(targetMode)) > 0
  /\ ~Dispersed(dispersionFactor)

\* the target of particle i (from 1) while the target is fixed
TargetOf(i) ==
  LET S == CurrentTargets(targetMode) IN S[((i - 1) % Len(S)) + 1]

DistanceToTarget(p, i) == VLength(VSub(TargetOf(i), p.position))

\* the step took the particle through its target to the far side
Crossed(p, q, i) ==
  LET a == VSub(p.position, TargetOf(i))
      b == VSub(q.position, TargetOf(i))
  IN  a[1] * b[1] + a[2] * b[2] + a[3] * b[3] < 0

\* C11: while the target is fixed, every tick that starts more than 0.01 away from
\* the target ends strictly nearer to it, and a tick that takes the particle
\* past its target leaves it at most maxSpeed beyond.
C11_MonotoneApproach ==
  [][(TickStep /\ FixedTarget) =>
       \A i \in Particles :
         /\ DistanceToTarget(particles[i], i) > 10
              => DistanceToTarget(particles'[i], i) < DistanceToTarget(particles[i], i)
         /\ Crossed(particles[i], particles'[i], i)
              => DistanceToTarget(particles'[i], i) <= MaxSpeed(dispersionFactor)]_vars

\* the tick that last ran held the hand, a non-empty point set and zero dispersion
SettledTick == ticks > 0 /\ tick.hasHand /\ tick.hasTargets /\ tick.dispersion = 0

\* particle i rests on its target
AtRest(p, i) == p.position = TargetOf(i) /\ p.velocity = <<0, 0, 0>>

\* C12: with a hand, zero dispersion and a non-empty point set, a particle that is
\* at S[i mod |S|] with zero velocity is left there by the tick, with zero
\* velocity, and the target the tick resolves for it is that point without noise.
C12_RestIsFixedPoint ==
  [][(TickStep /\ FixedTarget /\ dispersionFactor = 0) =>
       \A i \in Particles :
         AtRest(particles[i], i)
           => /\ AtRest(particles'[i], i)
              /\ tick'.targetVec[i] = TargetOf(i)
              /\ \A c \in 1 .. 3 : positions'[3 * (i - 1) + c] = TargetOf(i)[c]]_vars

\* a tick ran on a particle resting on its target
C12_Witness ==
  /\ SettledTick /\ FixedTarget /\ dispersionFactor = 0
  /\ \E i \in Particles :
       /\ AtRest(particles[i], i)
       /\ positions[3 * (i - 1) + 1] = TargetOf(i)[1]

\* the largest maxSpeed: 0.5 + 1.5 * 1
MaxSpeedMax == MaxSpeed(DispScale)

\* C20: every particle's speed is at most 11.5 * maxSpeedMax in every state, and
\* in every tick the force on a particle is at most maxSpeed = 0.5 + 1.5 *
\* dispersion long, and zero for a particle that is on its target.
C20_SpeedBounded ==
  /\ [](\A i \in Particles :
          2 * VLength(particles[i].velocity) <= 23 * MaxSpeedMax)
  /\ [][TickStep =>
          \A i \in Particles :
            LET force == SeekForce(tick'.targetVec[i], particles[i].position,
                                   dispersionFactor)
            IN  /\ VLength(force) <= MaxSpeed(dispersionFactor)
                /\ particles[i].position = tick'.targetVec[i] => force = <<0, 0, 0>>
                /\ particles'[i].velocity = Damp(VAdd(particles[i].velocity, force))]_vars

\* ticks under the full force have taken a particle to more than four times
\* maxSpeed per tick
C20_Witness ==
  /\ ticks > 1
  /\ \E i \in Particles :
       VLength(particles[i].velocity) > 4 * MaxSpeed(dispersionFactor)

----------------------------------------------------------------------------
(* Properties of the colour update *)

\* the channel (1 red, 2 green, 3 blue) held at index k of the colour buffer
ChannelOf(k) == ((k - 1) % 3) + 1

\* the target colour of the tick about to run
TickColor == TargetColor(targetMode, activeHandCount > 0)

ColorsInRange == \A k \in DOMAIN colors : colors[k] >= 0 /\ colors[k] <= 1000

\* C13: every colour channel is in [0,1] in every state, and a tick leaves every
\* channel between its old value and the tick's target channel and no farther
\* from it, whatever the mode and hand presence were on the ticks before.
C13_ColorMonotoneInRange ==
  /\ []ColorsInRange
  /\ [][TickStep =>
          \A k \in DOMAIN colors :
            /\ Min(colors[k], TickColor[ChannelOf(k)]) <= colors'[k]
            /\ colors'[k] <= Max(colors[k], TickColor[ChannelOf(k)])
            /\ colors[k] # TickColor[ChannelOf(k)]
                 => Abs(TickColor[ChannelOf(k)] - colors'[k])
                      <= Abs(TickColor[ChannelOf(k)] - colors[k])]_vars

\* ticks toward magenta after ticks toward cyan: the green channel, risen
\* toward 1, has come down below a half while the red channel has risen
C13_Witness ==
  /\ ticks > 1
  /\ tick.targetColor = color2
  /\ colors[2] > 0 /\ colors[2] < 500
  /\ colors[1] > 500

\* the palette: the colour of a mode, gray for a mode without one
Palette(mode) ==
  CASE mode = 1 -> color1
    [] mode = 2 -> color2
    [] mode = 3 -> color3
    [] OTHER -> colorIdle

\* C14: the target colour of every tick is idle gray without a hand and the
\* palette colour of the mode with one, whether or not the mode has points; the
\* three palette colours differ from each other and from gray, and a mode
\* outside 1..3 gets gray.
C14_TargetColorByHandAndMode ==
  /\ [][TickStep =>
          tick'.targetColor = IF activeHandCount > 0 THEN Palette(targetMode)
                                                     ELSE colorIdle]_vars
  /\ [](/\ Cardinality({color1, color2, color3, colorIdle}) = 4
         /\ \A other \in {0, 4} : TargetColor(other, TRUE) = colorIdle
         /\ \A any \in 0 .. 4 : TargetColor(any, FALSE) = colorIdle)

\* a tick with a hand in mode 3 whose point set is empty: the colour is yellow
\* while the particles stay in the idle formation
C14_Witness ==
  /\ ticks > 0
  /\ tick.hasHand /\ tick.mode = 3 /\ ~tick.hasTargets
  /\ tick.targetColor = color3

----------------------------------------------------------------------------
(* Properties of the polling loop *)

\* C15: when an iteration of the polling loop has finished, exactly one next
\* iteration is pending, and a pending iteration goes away without a successor
\* only by the cancellation of the unmount.
C15_OnePendingIteration ==
  [][ /\ requestRef' # requestRef => rafPending' = 1
      /\ rafPending' < rafPending => (mounted /\ ~mounted') ]_vars

----------------------------------------------------------------------------
(* Properties of the cache, the buffers and the pass *)

\* C16: a point set stored for a mode is the same in every later state: the timer
\* of the pre-generation effect fires once and is not set again, the cache
\* changes only while it is empty, and no simulation tick, with or without the
\* noise offset, changes a cached point.
C16_CacheNeverChanges ==
  [][ /\ \A mode \in DOMAIN targets :
           mode \in DOMAIN targets' /\ targets'[mode] = targets[mode]
      /\ targets' # targets => (timerPending /\ DOMAIN targets = {})
      /\ timerPending' => timerPending
      /\ TickStep => targets' = targets ]_vars

\* a tick added the noise offset to its targets, and the cached set of its mode
\* is still what the rasterizer returned
C16_Witness ==
  /\ ~timerPending
  /\ ticks > 0
  /\ tick.hasHand /\ tick.hasTargets /\ Dispersed(tick.dispersion)
  /\ \E i \in Particles : tick.targetVec[i] # targets[tick.mode][i]
  /\ targets[tick.mode] = generateTextParticles(canvases[tick.mode], RasterSize,
                                                 PARTICLE_COUNT)

\* the buffers as the ordered pass finds them when it comes to particle i
BeforeBody(i) == Pass(Buffers, SubSeq(LoopOrder, 1, i - 1), TickInputs)

\* C17: there are N particles and 3N entries in each buffer in every state, and
\* in every tick the loop body of particle i changes no entry of either buffer
\* other than 3i, 3i+1, 3i+2 and no particle other than i; after the tick the
\* position entries of particle i hold its position.
C17_ParticlesAndSlots ==
  /\ [](/\ DOMAIN particles = 1 .. PARTICLE_COUNT
         /\ DOMAIN positions = 1 .. 3 * PARTICLE_COUNT
         /\ DOMAIN colors = 1 .. 3 * PARTICLE_COUNT)
  /\ [][TickStep =>
          \A i \in Particles :
            LET before == BeforeBody(i)
                after == LoopBody(before, i, TickInputs)
            IN  /\ \A k \in (1 .. 3 * PARTICLE_COUNT) \ SlotsOf(i) :
                     /\ after.positions[k] = before.positions[k]
                     /\ after.colors[k] = before.colors[k]
                /\ \A j \in Particles \ {i} : after.particles[j] = before.particles[j]
                /\ \A c \in 1 .. 3 :
                     positions'[3 * (i - 1) + c] = particles'[i].position[c]]_vars

\* the targets were rasterized, a sample was processed and a tick ran: the last
\* particle's entries hold its position, which is not the first particle's
C17_Witness ==
  /\ ~timerPending /\ requestRef > 0 /\ ticks > 0
  /\ DOMAIN particles = 1 .. PARTICLE_COUNT
  /\ \A c \in 1 .. 3 :
       positions[3 * (PARTICLE_COUNT - 1) + c] = particles[PARTICLE_COUNT].position[c]
  /\ particles[PARTICLE_COUNT].position # particles[1].position

\* the orders in which the N particles can be taken
LoopOrders ==
  { order \in [1 .. PARTICLE_COUNT -> 1 .. PARTICLE_COUNT] :
      \A i, j \in 1 .. PARTICLE_COUNT : i # j => order[i] # order[j] }

\* C18: in every tick, the loop bodies run in any order of the particles leave
\* the positions, velocities and colours that the tick leaves.
C18_OrderIndependent ==
  [][TickStep =>
       \A order \in LoopOrders :
         LET done == Pass(Buffers, order, TickInputs)
         IN  /\ done.particles = particles'
             /\ done.positions = positions'
             /\ done.colors = colors']_vars

\* a tick ran on moving particles and changing colours with more than one order
C18_Witness ==
  /\ ticks > 0
  /\ Cardinality(LoopOrders) > 1
  /\ \E k \in DOMAIN colors : colors[k] # 0
  /\ \A i \in Particles : particles[i].velocity # <<0, 0, 0>>

\* the ControlState is what one iteration leaves: the start values before any
\* sample, else hand count and dispersion of the last sample and a mode that
\* sample's fingers allow
WholeControlState ==
  IF lastVideoTimeRef = -1
    THEN targetMode = 1 /\ dispersionFactor = 0 /\ activeHandCount = 0
    ELSE /\ activeHandCount = Len(results)
         /\ dispersionFactor = IF Len(results) > 0 THEN ClampedSpread(results[1])
                                                    ELSE DispScale \div 10
         /\ targetMode \in 1 .. 3
         /\ (Len(results) > 0 /\ ExtendedCount(results[1]) > 0)
              => targetMode = Min(ExtendedCount(results[1]), 3)

\* C19: every tick works with the mode, dispersion and hand presence of the
\* ControlState as one iteration left it (or of the start), the same for all
\* N particles: each particle's target, step and colour are those of that triple.
C19_OneSnapshotPerTick ==
  [][TickStep =>
       /\ WholeControlState
       /\ tick'.mode = targetMode
       /\ tick'.dispersion = dispersionFactor
       /\ tick'.hasHand = (activeHandCount > 0)
       /\ tick'.targetColor = TargetColor(targetMode, activeHandCount > 0)
       /\ \A i \in Particles :
            /\ tick'.targetVec[i] = ResolveTarget(i - 1, tick'.time, dispersionFactor,
                                                 activeHandCount > 0, ActiveSet)
            /\ particles'[i] = StepParticle(particles[i], tick'.targetVec[i],
                                            dispersionFactor)
            /\ \A c \in 1 .. 3 :
                 colors'[3 * (i - 1) + c] =
                   Lerp(colors[3 * (i - 1) + c],
                        TargetColor(targetMode, activeHandCount > 0)[c])]_vars

\* a tick ran after two samples: the second, without a hand, kept the mode 3
\* of the first and set the dispersion 0.1
C19_Witness ==
  /\ ticks > 0
  /\ videoTime > 0 /\ lastVideoTimeRef = videoTime
  /\ results = <<>>
  /\ tick.mode = 3 /\ targetMode = 3
  /\ ~tick.hasHand
  /\ 10 * tick.dispersion = DispScale

====
